---- MODULE Spec2Model ----
EXTENDS Integers, Sequences, FiniteSets, Bags, TLC

(***************************************************************************)
(* Model of scripts/website_checker.py: the crawl engine of the website    *)
(* checker (WebsiteChecker.crawl and the pure helpers it uses).            *)
(*                                                                         *)
(* A Python str is a sequence of tokens, each token standing for the       *)
(* characters it spells; the delimiters of a URL (":", "//", "?", "#",     *)
(* ";", ".") are tokens of their own and a token that starts with "/" is a *)
(* piece of a path.  The empty str is << >>.  An Optional value is << >>   *)
(* (None) or << x >>.                                                      *)
(***************************************************************************)

None == << >>
Some(x) == << x >>

\* ------------------------------------------------------------------ bounds
\* The pages served during one run hold at most MaxTags <a> and <img> tags in
\* all, and at most MaxFailures GETs of one run fail (a status outside
\* [200, 400), or a RequestException).
MaxTags == 3
MaxFailures == 2

\* ------------------------------------------------------------- str helpers
\* The one element of a singleton.  {F(x) : x \in {e}} computes e once and
\* hands its value to F; Only takes the result out again.
Only(S) == CHOOSE x \in S : TRUE

\* str.lower(), token by token
lower_token(t) ==
    CASE t = "WWW" -> "www"
      [] t = "Site" -> "site"
      [] t = "HTTPS" -> "https"
      [] t = "CDN" -> "cdn"
      [] t = "Q" -> "q"
      [] OTHER -> t

lower(s) == Only({[i \in 1..Len(t) |-> lower_token(t[i])] : t \in {s}})

startswith(s, prefix) ==
    Len(s) >= Len(prefix) /\ SubSeq(s, 1, Len(prefix)) = prefix

endswith(s, suffix) ==
    Len(s) >= Len(suffix) /\ SubSeq(s, Len(s) - Len(suffix) + 1, Len(s)) = suffix

\* index of the first token of s in the set ts, Len(s) + 1 when there is none
find(s, ts) ==
    Only({IF at = {} THEN Len(s) + 1 ELSE CHOOSE i \in at : \A j \in at : i <= j :
            at \in {{i \in 1..Len(s) : s[i] \in ts}}})

\* index of the last token of s in the set ts, 0 when there is none
rfind(s, ts) ==
    Only({IF at = {} THEN 0 ELSE CHOOSE i \in at : \A j \in at : i >= j :
            at \in {{i \in 1..Len(s) : s[i] \in ts}}})

\* str.strip(): leading and trailing blanks removed
strip(s) ==
    LET keep == {i \in 1..Len(s) : s[i] # " "}
    IN  IF keep = {} THEN << >>
        ELSE SubSeq(s, CHOOSE i \in keep : \A j \in keep : i <= j,
                       CHOOSE i \in keep : \A j \in keep : i >= j)

\* --------------------------------------------------------- urllib.parse
SchemeTokens == {"http", "https", "HTTPS", "mailto", "tel", "javascript", "data"}
PathTokens == {"/", "//", "/about", "/logo.png", "/in/x", "/x"}
uses_netloc == {<<"http">>, <<"https">>}
uses_relative == {<<"http">>, <<"https">>}
uses_params == {<<"http">>, <<"https">>}

\* str.partition at index i: what is before s[i] and what is after it
cut(s, i) == <<SubSeq(s, 1, i - 1), SubSeq(s, i + 1, Len(s))>>

\* urlsplit: the scheme, when the url starts with one: (scheme, rest)
split_scheme(url) ==
    IF Len(url) >= 2 /\ url[2] = ":" /\ url[1] \in SchemeTokens
    THEN <<lower(<<url[1]>>), SubSeq(url, 3, Len(url))>>
    ELSE << << >>, url >>

\* urlsplit: the netloc, from "//" to the next "/", "?" or "#": (netloc, rest)
split_netloc(url) ==
    IF Len(url) >= 1 /\ url[1] = "//"
    THEN Only({<<SubSeq(url, 2, delim - 1), SubSeq(url, delim, Len(url))>> :
                 delim \in {1 + find(Tail(url), PathTokens \cup {"?", "#"})}})
    ELSE << << >>, url >>

\* _splitparams: the path is cut at the first ";" after its last "/"
split_params(scheme, path) ==
    IF scheme \in uses_params
    THEN cut(path, rfind(path, PathTokens)
                   + find(SubSeq(path, rfind(path, PathTokens) + 1, Len(path)), {";"}))
    ELSE <<path, << >> >>

ParseResult(scheme, netloc, path_params, query, fragment) ==
    [scheme |-> scheme, netloc |-> netloc, path |-> path_params[1],
     params |-> path_params[2], query |-> query, fragment |-> fragment]

\* urlparse, step by step; each step takes the (part, rest) pair of the one
\* before it
parse_query(scheme, netloc, path_query, fragment) ==
    Only({ParseResult(scheme, netloc, path_params, path_query[2], fragment) :
            path_params \in {split_params(scheme, path_query[1])}})

parse_fragment(scheme, netloc, url_fragment) ==
    Only({parse_query(scheme, netloc, path_query, url_fragment[2]) :
            path_query \in {cut(url_fragment[1], find(url_fragment[1], {"?"}))}})

parse_netloc(scheme, netloc_rest) ==
    Only({parse_fragment(scheme, netloc_rest[1], url_fragment) :
            url_fragment \in {cut(netloc_rest[2], find(netloc_rest[2], {"#"}))}})

parse_scheme(scheme_rest) ==
    Only({parse_netloc(scheme_rest[1], netloc_rest) :
            netloc_rest \in {split_netloc(scheme_rest[2])}})

\* urlsplit raises ValueError("Invalid IPv6 URL") when the netloc holds one of
\* "[" and "]" without the other
invalid_netloc(netloc) ==
    (\E i \in DOMAIN netloc : netloc[i] = "[") # (\E i \in DOMAIN netloc : netloc[i] = "]")

urlsplit_raises(url) == invalid_netloc(split_netloc(split_scheme(url)[2])[1])

\* urljoin(base, url) parses both of its arguments
urljoin_raises(base, url) ==
    base # << >> /\ url # << >> /\ (urlsplit_raises(base) \/ urlsplit_raises(url))

\* urlparse(url): the 6-tuple (scheme, netloc, path, params, query, fragment)
urlparse(url) ==
    Only({parse_scheme(scheme_rest) : scheme_rest \in {split_scheme(url)}})

\* ParseResult.hostname: the netloc in lower case ("" stands for None: every
\* caller writes `hostname or ""`; no URL of the model has a port or user info)
hostname(parsed) == lower(parsed.netloc)

with_params(c) ==
    IF c.params # << >> THEN c.path \o <<";">> \o c.params ELSE c.path

with_netloc(c, url) ==
    IF c.netloc # << >>
       \/ (c.scheme # << >> /\ c.scheme \in uses_netloc /\ ~startswith(url, <<"//">>))
    THEN <<"//">> \o c.netloc
         \o (IF url # << >> /\ url[1] \notin PathTokens THEN <<"/">> \o url ELSE url)
    ELSE url

with_scheme(c, url) ==
    IF c.scheme # << >> THEN c.scheme \o <<":">> \o url ELSE url

with_query(c, url) ==
    IF c.query # << >> THEN url \o <<"?">> \o c.query ELSE url

with_fragment(c, url) ==
    IF c.fragment # << >> THEN url \o <<"#">> \o c.fragment ELSE url

\* urlunparse(components)
urlunparse(c) ==
    Only({with_fragment(c, with_query(c, with_scheme(c, url))) :
            url \in {with_netloc(c, with_params(c))}})

\* urljoin on parsed urls: b the base, u the reference with the base's scheme
\* as its default
join_parsed(url, b, u) ==
    IF u.scheme # b.scheme \/ u.scheme \notin uses_relative THEN url
    ELSE IF u.netloc # << >> THEN urlunparse(u)
    ELSE IF u.path = << >> /\ u.params = << >>
         THEN urlunparse([u EXCEPT !.netloc = b.netloc,
                                   !.path = b.path,
                                   !.params = b.params,
                                   !.query = IF u.query = << >> THEN b.query
                                             ELSE u.query])
         ELSE urlunparse([u EXCEPT !.netloc = b.netloc])

default_scheme(p, scheme) ==
    IF p.scheme = << >> THEN [p EXCEPT !.scheme = scheme] ELSE p

\* urljoin(base, url) for the references of the model: absolute URLs,
\* references that start with "/", and references without a path.
urljoin(base, url) ==
    IF base = << >> THEN url
    ELSE IF url = << >> THEN base
    ELSE Only({join_parsed(url, b, u) :
                 b \in {urlparse(base)},
                 u \in {default_scheme(urlparse(url), urlparse(base).scheme)}})

\* ------------------------------------------------------ website_checker.py
\* mutant: the fragment is kept
normalized_keep_fragment(parsed) ==
    urlunparse([parsed EXCEPT !.netloc = lower(parsed.netloc), !.params = << >>])

\* lines 580-588
normalized(parsed) ==
    Only({urlunparse(c) :
            c \in {[scheme |-> parsed.scheme,
                    netloc |-> lower(parsed.netloc),
                    path |-> parsed.path,
                    params |-> << >>,
                    query |-> parsed.query,
                    fragment |-> << >>]}})

normalize_url(raw_url) ==
    IF raw_url = << >> THEN << >>
    ELSE Only({IF parsed.scheme \notin {<<"http">>, <<"https">>} THEN raw_url
               ELSE normalized(parsed) :
                 parsed \in {urlparse(raw_url)}})

build_internal_domains(base_domain, extra_domains) ==
    LET fromBase ==
            IF base_domain # << >>
            THEN LET base == lower(base_domain)
                 IN  {base} \cup (IF startswith(base, <<"www", ".">>)
                                  THEN {SubSeq(base, 3, Len(base))}
                                  ELSE {<<"www", ".">> \o base})
            ELSE {}
        fromExtra == {lower(strip(domain)) : domain \in extra_domains}
    IN  {domain \in fromBase \cup fromExtra : domain # << >>}

is_linkedin_domain(domain) == endswith(lower(domain), <<"linkedin", ".", "com">>)


\* UrlCheckResult / Issue / CrawlSummary (dataclasses; elapsed and
\* duration_seconds are wall-clock readings and are left out)
UrlCheckResult(url, status_code, ok, detail) ==
    [url |-> url, status_code |-> status_code, ok |-> ok, detail |-> detail]

Issue(kind, message, source, target, status_code) ==
    [kind |-> kind, message |-> message, source |-> source, target |-> target,
     status_code |-> status_code]

CrawlSummary(b, pages, links, images, iss, warns) ==
    [base_url |-> b, checked_pages |-> pages, checked_links |-> links,
     checked_images |-> images, issues |-> iss, warnings |-> warns]

has_issues(s) == s.issues # << >>
has_warnings(s) == s.warnings # << >>

\* ------------------------------------------------------------ environment
\* An HTML document is the set of its tags; a tag is (name, attribute, value).
Tag(name, attr, value) == [name |-> name, attr |-> attr, value |-> value]

\* The command line: --base-url, --internal-domains
BaseUrlArg == <<"https", ":", "//", "Site", ".", "test", "/">>
ExtraDomainsArg == {}

Home == <<"/">>
About == <<"/about", "#", "team">>
WwwX == <<"https", ":", "//", "WWW", ".", "Site", ".", "test", "/x">>
External == <<"https", ":", "//", "external", ".", "test", "/">>
LinkedIn == <<"https", ":", "//", "www", ".", "linkedin", ".", "com", "/in/x">>
Mailto == <<"mailto", ":", "x">>
Logo == <<"/logo.png">>

Hrefs == {Home, About, WwwX, External, LinkedIn, Mailto}
Srcs == {Logo}

\* references to other hosts: a subdomain of the base host that
\* --internal-domains does not list, and a host whose name ends in
\* "linkedin.com" without being linkedin.com or one of its subdomains
Blog == <<"https", ":", "//", "blog", ".", "site", ".", "test", "/">>
NotLinkedIn == <<"https", ":", "//", "not", "linkedin", ".", "com", "/">>
HostHrefs == {Blog, NotLinkedIn}

\* an image that is held in the page itself: src="data:x"
DataSrc == <<"data", ":", "x">>
OtherSrcs == {DataSrc}

\* The URLs of the site: the base URL and what the references resolve to, on
\* whatever page they stand.
RECURSIVE UrlsFrom(_)
UrlsFrom(S) ==
    LET T == S \cup {normalize_url(joined) :
                        joined \in {urljoin(base, value) :
                                      base \in S,
                                      value \in Hrefs \cup HostHrefs \cup Srcs \cup OtherSrcs}}
    IN  IF T = S THEN S ELSE UrlsFrom(T)

Urls == UrlsFrom({normalize_url(BaseUrlArg)})

\* urlparse(url) and normalize_url(urljoin(base, value)) on the URLs of the
\* site, as functions: TLC computes each value once.
parsed_url == [url \in Urls |-> urlparse(url)]
resolved ==
    [base \in Urls, value \in Hrefs \cup HostHrefs \cup Srcs \cup OtherSrcs |->
        normalize_url(urljoin(base, value))]

\* a reference that urljoin cannot parse: href="http://["
Malformed == <<"http", ":", "//", "[">>
BadHrefs == {Malformed}

Documents ==
    {doc \in SUBSET ({Tag("a", "href", h) : h \in Hrefs}
                     \cup {Tag("img", "src", s) : s \in Srcs}) :
        Cardinality(doc) <= MaxTags}

\* the documents that hold an anchor with a reference of BadHrefs
BadDocuments ==
    {doc \cup {Tag("a", "href", h)} : doc \in Documents, h \in BadHrefs}

\* the documents that hold an anchor with a reference of HostHrefs or an
\* image with a reference of OtherSrcs
HostDocuments ==
    {doc \cup {tag} :
        doc \in Documents,
        tag \in {Tag("a", "href", h) : h \in HostHrefs}
                \cup {Tag("img", "src", src) : src \in OtherSrcs}}

\* What session.get(url) brings back: a response, or a RequestException.
Response(status, text, content_type) ==
    [raises |-> FALSE, status_code |-> status, text |-> text,
     content_type |-> content_type, exc |-> << >>]
Raised(message) ==
    [raises |-> TRUE, status_code |-> 0, text |-> {}, content_type |-> << >>,
     exc |-> message]

TextHtml == <<"text/", "html">>
ImagePng == <<"image/", "png">>

FailedPages == {Response(500, {}, TextHtml), Raised(<<"ConnectionError">>)}
FailedLinks == {Response(404, {}, TextHtml), Response(999, {}, TextHtml)}
FailedImages == {Response(404, {}, TextHtml)}

\* ------------------------------------------------------------------ state
VARIABLES
    base_url, base_domain, internal_domains,        \* WebsiteChecker fields
    visited_pages, checked_links, checked_images,
    issues, warnings,
    to_visit, seen, current, link_iter, image_iter, \* locals of crawl()
    pc,                                             \* where crawl() is
    summary,                                        \* what crawl() returned
    requests,                                       \* the GETs sent, by purpose
    tags_served, failures                           \* the site so far

vars == <<base_url, base_domain, internal_domains, visited_pages, checked_links,
          checked_images, issues, warnings, to_visit, seen, current, link_iter,
          image_iter, pc, summary, requests, tags_served, failures>>

\* What the site may answer to the next GET of a page, a link, an image
PageResponses ==
    {Response(200, doc, TextHtml) :
        doc \in {d \in Documents : tags_served + Cardinality(d) <= MaxTags}}
    \cup (IF failures < MaxFailures THEN FailedPages ELSE {})
LinkResponses ==
    {Response(200, {}, TextHtml)}
    \cup (IF failures < MaxFailures THEN FailedLinks ELSE {})
ImageResponses ==
    {Response(200, {}, ct) : ct \in {ImagePng, TextHtml}}
    \cup (IF failures < MaxFailures THEN FailedImages ELSE {})

\* the site after it gave this response
answered(response) ==
    /\ tags_served' = tags_served + Cardinality(response.text)
    /\ failures' = IF response \in FailedPages \cup FailedLinks \cup FailedImages
                   THEN failures + 1 ELSE failures

\* d[k] = v on a dict
dict_set(d, k, v) == (k :> v) @@ d

\* mutant: 400 counts as a success
status_ok_to_400(status_code) == 200 <= status_code /\ status_code <= 400

\* line 516
status_ok(status_code) == 200 <= status_code /\ status_code < 400

\* WebsiteChecker._fetch, given what the GET brought back
_fetch(url, store_body, response) ==
    IF response.raises
    THEN UrlCheckResult(url, None, FALSE, response.exc)
    ELSE LET status_code == response.status_code
             ok == status_ok(status_code)
         IN  IF ~ok
             THEN UrlCheckResult(url, Some(status_code), FALSE,
                                 <<"HTTP ", ToString(status_code)>>)
             ELSE IF store_body
             THEN UrlCheckResult(url, Some(status_code), TRUE, response.text)
             ELSE UrlCheckResult(url, Some(status_code), TRUE, response.content_type)

\* soup.find_all(name, attr=True)
find_all(soup, name, attr) == {t \in soup : t.name = name /\ t.attr = attr}

extract_links(base, soup) ==
    {resolved[base, tag.value] :
        tag \in {t \in find_all(soup, "a", "href") : t.value # << >>}} \ {<< >>}

extract_images(base, soup) ==
    {resolved[base, tag.value] :
        tag \in {t \in find_all(soup, "img", "src") : t.value # << >>}} \ {<< >>}

\* WebsiteChecker.__init__
Init ==
    /\ base_url = normalize_url(BaseUrlArg)
    /\ base_domain = hostname(urlparse(normalize_url(BaseUrlArg)))
    /\ internal_domains =
           build_internal_domains(hostname(urlparse(normalize_url(BaseUrlArg))),
                                  ExtraDomainsArg)
    /\ visited_pages = << >>
    /\ checked_links = << >>
    /\ checked_images = << >>
    /\ issues = << >>
    /\ warnings = << >>
    /\ to_visit = << >>
    /\ seen = {}
    /\ current = << >>
    /\ link_iter = {}
    /\ image_iter = {}
    /\ pc = "start"
    /\ summary = None
    /\ requests = EmptyBag
    /\ tags_served = 0
    /\ failures = 0


\* ------------------------------------------------------------ crawl()
\* lines 405-406
crawl_start ==
    /\ pc = "start"
    /\ to_visit' = <<base_url>>
    /\ seen' = {}
    /\ pc' = "loop"
    /\ UNCHANGED <<base_url, base_domain, internal_domains, visited_pages,
                   checked_links, checked_images, issues, warnings, current,
                   link_iter, image_iter, summary, requests, tags_served,
                   failures>>

\* mutant: the head is read as to_visit[0] and stays in the queue
popleft_peek(queue) == queue

\* line 409: to_visit.popleft() leaves the rest of the queue
popleft(queue) == Tail(queue)

\* line 410
already_seen(url) == url \in seen

\* where the body of the while loop goes on after the page was parsed
after_page(links, images) ==
    IF links # {} THEN "links" ELSE IF images # {} THEN "images" ELSE "loop"

\* lines 408-411: a URL taken from the queue that was visited before
skip_seen ==
    /\ pc = "loop"
    /\ to_visit # << >>
    /\ already_seen(Head(to_visit))
    /\ current' = Head(to_visit)
    /\ to_visit' = popleft(to_visit)
    /\ UNCHANGED <<base_url, base_domain, internal_domains, visited_pages,
                   checked_links, checked_images, issues, warnings, seen,
                   link_iter, image_iter, pc, summary, requests, tags_served,
                   failures>>

page_error_message(url, result) ==
    <<"Failed to load page ">> \o url \o <<": ">>
    \o (IF result.detail # << >> THEN result.detail ELSE <<"HTTP error">>)

\* mutant: the issue does not carry the status code of the fetch
page_error_no_status(url, result) ==
    Issue("page_error", page_error_message(url, result), Some(url), None, None)

\* lines 417-424
page_error(url, result) ==
    Issue("page_error", page_error_message(url, result), Some(url), None,
          result.status_code)

\* lines 408-432 and 468: a page is taken from the queue, fetched and parsed
visit_page ==
    /\ pc = "loop"
    /\ to_visit # << >>
    /\ ~already_seen(Head(to_visit))
    /\ \E response \in PageResponses :
         LET url == Head(to_visit)
             page_result == _fetch(url, TRUE, response)
             soup == page_result.detail
         IN  /\ answered(response)
             /\ current' = url
             /\ to_visit' = popleft(to_visit)
             /\ seen' = seen \cup {url}
             /\ requests' = requests (+) SetToBag({<<"page", url>>})
             /\ visited_pages' = dict_set(visited_pages, url, page_result)
             /\ IF ~page_result.ok
                THEN /\ issues' = Append(issues, page_error(url, page_result))
                     /\ pc' = "loop"
                     /\ UNCHANGED <<link_iter, image_iter>>
                ELSE /\ link_iter' = extract_links(url, soup)
                     /\ image_iter' = extract_images(url, soup)
                     /\ pc' = after_page(extract_links(url, soup),
                                         extract_images(url, soup))
                     /\ UNCHANGED issues
    /\ UNCHANGED <<base_url, base_domain, internal_domains, checked_links,
                   checked_images, warnings, summary>>

\* line 432: extract_links(current, soup) raises when urljoin raises on one
\* of the anchors (line 551)
extract_links_raises(base, soup) ==
    \E tag \in find_all(soup, "a", "href") :
        tag.value # << >> /\ urljoin_raises(base, tag.value)

\* lines 408-432 on a page with an anchor that urljoin cannot parse: the page
\* is fetched and recorded, then the ValueError of extract_links leaves
\* crawl(): nothing catches it
visit_page_raises ==
    /\ pc = "loop"
    /\ to_visit # << >>
    /\ ~already_seen(Head(to_visit))
    /\ \E doc \in {d \in BadDocuments : tags_served + Cardinality(d) <= MaxTags} :
         LET url == Head(to_visit)
             response == Response(200, doc, TextHtml)
             page_result == _fetch(url, TRUE, response)
         IN  /\ page_result.ok
             /\ extract_links_raises(url, page_result.detail)
             /\ answered(response)
             /\ current' = url
             /\ to_visit' = popleft(to_visit)
             /\ seen' = seen \cup {url}
             /\ requests' = requests (+) SetToBag({<<"page", url>>})
             /\ visited_pages' = dict_set(visited_pages, url, page_result)
             /\ pc' = "raised"
    /\ UNCHANGED <<base_url, base_domain, internal_domains, checked_links,
                   checked_images, issues, warnings, link_iter, image_iter,
                   summary>>

\* lines 408-432 and 468 on a page with an anchor to one of the other hosts
\* or with an image held in the page
visit_page_hosts ==
    /\ pc = "loop"
    /\ to_visit # << >>
    /\ ~already_seen(Head(to_visit))
    /\ \E doc \in {d \in HostDocuments : tags_served + Cardinality(d) <= MaxTags} :
         LET url == Head(to_visit)
             response == Response(200, doc, TextHtml)
             page_result == _fetch(url, TRUE, response)
             soup == page_result.detail
         IN  /\ page_result.ok
             /\ answered(response)
             /\ current' = url
             /\ to_visit' = popleft(to_visit)
             /\ seen' = seen \cup {url}
             /\ requests' = requests (+) SetToBag({<<"page", url>>})
             /\ visited_pages' = dict_set(visited_pages, url, page_result)
             /\ link_iter' = extract_links(url, soup)
             /\ image_iter' = extract_images(url, soup)
             /\ pc' = after_page(extract_links(url, soup),
                                 extract_images(url, soup))
    /\ UNCHANGED <<base_url, base_domain, internal_domains, checked_links,
                   checked_images, issues, warnings, summary>>

\* mutant: every scheme passes
is_http_any(parsed) == TRUE

\* lines 434 and 470
is_http(parsed) == parsed.scheme \in {<<"http">>, <<"https">>}

\* mutant: the link is checked again on every page that holds it
link_unchecked_always(link_url) == TRUE

\* mutant: only links that leave the site are link-checked
link_unchecked_external_only(link_url) ==
    /\ link_url \notin DOMAIN checked_links
    /\ lower(hostname(parsed_url[link_url])) \notin internal_domains

\* line 439
link_unchecked(link_url) == link_url \notin DOMAIN checked_links

\* mutant: only the bare host linkedin.com is downgraded
is_linkedin_999_bare_host(result, domain) ==
    result.status_code = Some(999) /\ domain = <<"linkedin", ".", "com">>

\* line 443
is_linkedin_999(result, domain) ==
    result.status_code = Some(999) /\ is_linkedin_domain(domain)

\* mutant: only the base host itself counts as internal
should_enqueue_base_only(domain, link_url) ==
    domain = base_domain /\ link_url \notin seen

\* mutant: every link that was not visited yet is queued
should_enqueue_any(domain, link_url) == link_url \notin seen

\* mutant: a subdomain of an internal host counts as internal
should_enqueue_subdomains(domain, link_url) ==
    /\ \E internal \in internal_domains :
          domain = internal \/ endswith(domain, <<".">> \o internal)
    /\ link_url \notin seen

\* mutant: a link whose check failed is not queued
should_enqueue_if_ok(domain, link_url) ==
    /\ domain \in internal_domains
    /\ link_url \notin seen
    /\ checked_links'[link_url].ok

\* mutant: a link is queued only while the queue is empty, so that the links
\* of a page that are iterated later are left out
should_enqueue_when_empty(domain, link_url) ==
    /\ domain \in internal_domains
    /\ link_url \notin seen
    /\ to_visit = << >>

\* line 464
should_enqueue(domain, link_url) ==
    domain \in internal_domains /\ link_url \notin seen

\* mutant: the link goes to the front of the queue
append_left(queue, url) == <<url>> \o queue

\* line 465: to_visit.append(link_url)
append(queue, url) == Append(queue, url)

link_warning(source, result) ==
    Issue("link_warning",
          <<"LinkedIn returned HTTP 999 (likely bot protection). Please verify manually.">>,
          Some(source), Some(result.url), result.status_code)

\* mutant: every link_error names the base URL as its source
link_error_from_base(source, result) ==
    Issue("link_error",
          <<"Link failed to load: ">>
          \o (IF result.detail # << >> THEN result.detail ELSE <<"HTTP error">>),
          Some(base_url), Some(result.url), result.status_code)

link_error(source, result) ==
    Issue("link_error",
          <<"Link failed to load: ">>
          \o (IF result.detail # << >> THEN result.detail ELSE <<"HTTP error">>),
          Some(source), Some(result.url), result.status_code)

\* lines 432-465: one turn of the loop over the links of the page
check_link ==
    /\ pc = "links"
    /\ \E link_url \in link_iter :
         LET parsed == parsed_url[link_url]
             domain == lower(hostname(parsed))
             rest == link_iter \ {link_url}
         IN  /\ link_iter' = rest
             /\ pc' = after_page(rest, image_iter)
             /\ IF ~is_http(parsed)
                THEN UNCHANGED <<checked_links, issues, warnings, to_visit, requests,
                                 tags_served, failures>>
                ELSE /\ IF link_unchecked(link_url)
                        THEN \E response \in LinkResponses :
                               LET result == _fetch(link_url, FALSE, response)
                                   warn == ~result.ok /\ is_linkedin_999(result, domain)
                                   err == ~result.ok /\ ~is_linkedin_999(result, domain)
                               IN  /\ answered(response)
                                   /\ requests' = requests (+) SetToBag({<<"link", link_url>>})
                                   /\ checked_links' = dict_set(checked_links, link_url, result)
                                   /\ warnings' = IF warn
                                                  THEN Append(warnings, link_warning(current, result))
                                                  ELSE warnings
                                   /\ issues' = IF err
                                                THEN Append(issues, link_error(current, result))
                                                ELSE issues
                        ELSE UNCHANGED <<checked_links, issues, warnings, requests,
                                         tags_served, failures>>
                     /\ to_visit' = IF should_enqueue(domain, link_url)
                                    THEN append(to_visit, link_url)
                                    ELSE to_visit
    /\ UNCHANGED <<base_url, base_domain, internal_domains, visited_pages,
                   checked_images, seen, current, image_iter, summary>>

\* line 472
image_unchecked(image_url) == image_url \notin DOMAIN checked_images

\* mutant: every content type passes for an image
is_image_type_any(content_type) == TRUE

\* line 488
is_image_type(content_type) == startswith(content_type, <<"image/">>)

image_error(source, result) ==
    IF ~result.ok
    THEN Issue("image_error",
               <<"Image failed to load: ">>
               \o (IF result.detail # << >> THEN result.detail ELSE <<"HTTP error">>),
               Some(source), Some(result.url), result.status_code)
    ELSE Issue("image_error", <<"Image URL did not return an image content type.">>,
               Some(source), Some(result.url), None)

\* lines 468-496: one turn of the loop over the images of the page
check_image ==
    /\ pc = "images"
    /\ \E image_url \in image_iter :
         LET parsed_img == parsed_url[image_url]
             rest == image_iter \ {image_url}
         IN  /\ image_iter' = rest
             /\ pc' = after_page({}, rest)
             /\ IF ~is_http(parsed_img) \/ ~image_unchecked(image_url)
                THEN UNCHANGED <<checked_images, issues, requests, tags_served,
                                 failures>>
                ELSE \E response \in ImageResponses :
                       LET result == _fetch(image_url, FALSE, response)
                       IN  /\ answered(response)
                           /\ requests' = requests (+) SetToBag({<<"image", image_url>>})
                           /\ checked_images' = dict_set(checked_images, image_url, result)
                           /\ issues' = IF ~result.ok \/ ~is_image_type(result.detail)
                                        THEN Append(issues, image_error(current, result))
                                        ELSE issues
    /\ UNCHANGED <<base_url, base_domain, internal_domains, visited_pages,
                   checked_links, warnings, to_visit, seen, current, link_iter,
                   summary>>

\* line 499
link_errors_present == \E i \in DOMAIN issues : issues[i].kind = "link_error"

\* line 500
reported_warnings == IF link_errors_present THEN warnings ELSE << >>

\* lines 498-510: the queue is empty
crawl_return ==
    /\ pc = "loop"
    /\ to_visit = << >>
    /\ summary' = Some(CrawlSummary(base_url,
                                    Cardinality(DOMAIN visited_pages),
                                    Cardinality(DOMAIN checked_links),
                                    Cardinality(DOMAIN checked_images),
                                    issues, reported_warnings))
    /\ pc' = "returned"
    /\ UNCHANGED <<base_url, base_domain, internal_domains, visited_pages,
                   checked_links, checked_images, issues, warnings, to_visit, seen,
                   current, link_iter, image_iter, requests, tags_served,
                   failures>>

Next ==
    \/ crawl_start
    \/ skip_seen
    \/ visit_page
    \/ check_link
    \/ check_image
    \/ crawl_return

Spec == Init /\ [][Next]_vars

\* ------------------------------------------------ WebsiteChecker(...)
\* What main() may pass to WebsiteChecker: --base-url is a scheme, an
\* authority, a path, parameters, a query and a fragment, each of them there
\* or not; --internal-domains is a list of hosts.
ArgSchemes == {<< >>, <<"http", ":">>, <<"HTTPS", ":">>, <<"mailto", ":">>}
ArgAuthorities ==
    {<< >>, <<"//">>, <<"//", "Site", ".", "test">>,
     <<"//", "WWW", ".", "Site", ".", "test">>, <<"//", "WWW", ".">>}
ArgPaths == {<< >>, <<"/">>, <<"/about">>, <<"//", "Site", ".", "test", "/">>}
ArgParams == {<< >>, <<";", "p">>}
ArgQueries == {<< >>, <<"?", "Q", "=", "1">>}
ArgFragments == {<< >>, <<"#", "team">>}

BaseUrlArgs ==
    {scheme \o authority \o path \o params \o query \o fragment :
        scheme \in ArgSchemes, authority \in ArgAuthorities, path \in ArgPaths,
        params \in ArgParams, query \in ArgQueries, fragment \in ArgFragments}

ExtraDomainsArgs ==
    SUBSET {<< >>, <<" ">>, <<" ", "CDN", ".", "test", " ">>,
            <<"blog", ".", "site", ".", "test">>}

\* main() has the arguments: base_url is args.base_url and internal_domains
\* the list of extra hosts, as they are handed to WebsiteChecker
ArgsInit ==
    /\ base_url \in BaseUrlArgs
    /\ base_domain = << >>
    /\ internal_domains \in ExtraDomainsArgs
    /\ visited_pages = << >>
    /\ checked_links = << >>
    /\ checked_images = << >>
    /\ issues = << >>
    /\ warnings = << >>
    /\ to_visit = << >>
    /\ seen = {}
    /\ current = << >>
    /\ link_iter = {}
    /\ image_iter = {}
    /\ pc = "args"
    /\ summary = None
    /\ requests = EmptyBag
    /\ tags_served = 0
    /\ failures = 0

\* lines 392-394: WebsiteChecker.__init__
WebsiteChecker_init ==
    /\ pc = "args"
    /\ base_url' = normalize_url(base_url)
    /\ base_domain' = hostname(urlparse(normalize_url(base_url)))
    /\ internal_domains' =
           build_internal_domains(hostname(urlparse(normalize_url(base_url))),
                                  internal_domains)
    /\ pc' = "constructed"
    /\ UNCHANGED <<visited_pages, checked_links, checked_images, issues,
                   warnings, to_visit, seen, current, link_iter, image_iter,
                   summary, requests, tags_served, failures>>

ArgsNext == WebsiteChecker_init

ArgsSpec == ArgsInit /\ [][ArgsNext]_vars

\* crawl() on a site whose pages may hold a reference that urljoin cannot
\* parse
NextMalformed ==
    \/ Next
    \/ visit_page_raises

SpecMalformed == Init /\ [][NextMalformed]_vars

\* crawl() on a site whose pages may link to the other hosts
NextHosts ==
    \/ Next
    \/ visit_page_hosts

SpecHosts == Init /\ [][NextHosts]_vars

\* WebsiteChecker(...) on the arguments main() may pass, and crawl() on the
\* site with the other hosts
NextDomains ==
    \/ WebsiteChecker_init
    \/ NextHosts

SpecDomains == (ArgsInit \/ Init) /\ [][NextDomains]_vars

\* Every fetch returns (the timeout of session.get) and the interpreter keeps
\* running crawl(): a step that can be taken is taken.
FairSpec == Spec /\ WF_vars(Next)


\* ================================================================ claims
Returned == pc = "returned"
Result == summary[1]

\* the places of the list that hold a record of this kind
OfKind(list, kind) == {i \in DOMAIN list : list[i].kind = kind}

LinkErrorRecorded == \E i \in DOMAIN issues : issues[i].kind = "link_error"
LinkWarningRecorded == \E i \in DOMAIN warnings : warnings[i].kind = "link_warning"

\* C1: when crawl() returns and at least one link_error was recorded, the
\* returned warnings list is empty and has_warnings is false, even if
\* LinkedIn-999 warnings were recorded.
C1_WarningsSuppressed ==
    (Returned /\ LinkErrorRecorded)
        => (Result.warnings = << >> /\ ~has_warnings(Result))

\* C2: in a run without any link_error, every link_warning recorded during
\* the crawl is in the returned warnings list, so has_warnings is true
\* whenever a LinkedIn-999 link was found.
C2_WarningsReported ==
    (Returned /\ ~LinkErrorRecorded)
        => /\ \A i \in DOMAIN warnings :
                \E j \in DOMAIN Result.warnings : Result.warnings[j] = warnings[i]
           /\ LinkWarningRecorded => has_warnings(Result)

\* the internal host test of line 464, on a URL
Internal(url) == lower(hostname(parsed_url[url])) \in internal_domains

\* the http(s) anchor targets found on page p, when p was loaded successfully
FoundLinks(p) ==
    IF p \in DOMAIN visited_pages /\ visited_pages[p].ok
    THEN {l \in extract_links(p, visited_pages[p].detail) : is_http(parsed_url[l])}
    ELSE {}

FoundImages(p) ==
    IF p \in DOMAIN visited_pages /\ visited_pages[p].ok
    THEN {l \in extract_images(p, visited_pages[p].detail) : is_http(parsed_url[l])}
    ELSE {}

\* a dict keeps every entry it has, unchanged
Kept(d, e) == \A k \in DOMAIN d : k \in DOMAIN e /\ e[k] = d[k]

\* C3: during one crawl() each URL is fetched at most once as a page, at most
\* once as a link check and at most once as an image check, however many
\* pages reference it, and no entry of visited_pages, checked_links or
\* checked_images is overwritten once written.
C3_NoRevisit ==
    /\ [](\A request \in BagToSet(requests) : CopiesIn(request, requests) = 1)
    /\ [](/\ DOMAIN visited_pages = {r[2] : r \in {q \in BagToSet(requests) : q[1] = "page"}}
          /\ DOMAIN checked_links = {r[2] : r \in {q \in BagToSet(requests) : q[1] = "link"}}
          /\ DOMAIN checked_images = {r[2] : r \in {q \in BagToSet(requests) : q[1] = "image"}})
    /\ [][/\ Kept(visited_pages, visited_pages')
          /\ Kept(checked_links, checked_links')
          /\ Kept(checked_images, checked_images')]_vars

\* a link and an image are each referenced by two loaded pages, and a URL is
\* fetched both as a link check and as a page
C3_Witness ==
    /\ Returned
    /\ \E p, q \in DOMAIN visited_pages :
         p # q /\ FoundLinks(p) \cap FoundLinks(q) # {}
    /\ \E u \in DOMAIN visited_pages : u \in DOMAIN checked_links

\* the (page, target) pairs of the http(s) anchors found on loaded pages
Anchors == UNION {{<<p, l>> : l \in FoundLinks(p)} : p \in DOMAIN visited_pages}

\* the URLs reachable from the URLs of S over the (page, target) pairs of E
RECURSIVE ReachFrom(_, _)
ReachFrom(S, E) ==
    LET T == S \cup {e[2] : e \in {d \in E : d[1] \in S}}
    IN  IF T = S THEN S ELSE ReachFrom(T, E)

\* C4: when crawl() has returned, every internal URL reachable from the base
\* URL over http(s) anchors found on successfully loaded pages was fetched as
\* a page, and every http(s) anchor target found on a successfully loaded page
\* is in checked_links.
C4_DiscoveryComplete ==
    Returned =>
        LET found == Anchors
            internal == {a \in found : Internal(a[2])}
        IN  /\ ReachFrom({base_url}, internal) \subseteq DOMAIN visited_pages
            /\ \A a \in found : a[2] \in DOMAIN checked_links

\* a page two links away from the base URL, on the www host, was visited and
\* an external link was found
C4_Witness ==
    /\ Returned
    /\ \E p, q \in DOMAIN visited_pages :
         /\ p \in FoundLinks(base_url)
         /\ q \in FoundLinks(p) \ (FoundLinks(base_url) \cup {p, base_url})
         /\ hostname(parsed_url[q]) # base_domain
    /\ \E p \in DOMAIN visited_pages : \E l \in FoundLinks(p) : ~Internal(l)

Fetched(purpose) == {r[2] : r \in {q \in BagToSet(requests) : q[1] = purpose}}

\* C6: a link whose host is not in internal_domains is link-checked but never
\* put on the queue and never fetched as a page: every URL on the queue, every
\* key of visited_pages and every page fetch is the base URL or has an
\* internal host.
C6_ExternalNotCrawled ==
    /\ \A u \in {to_visit[i] : i \in DOMAIN to_visit}
                 \cup DOMAIN visited_pages \cup Fetched("page") :
         u = base_url \/ Internal(u)
    /\ Returned =>
         \A a \in Anchors :
           ~Internal(a[2]) =>
               a[2] \in DOMAIN checked_links /\ a[2] \notin DOMAIN visited_pages

\* a run that met two links that leave the site; both were link-checked
C6_Witness ==
    /\ Returned
    /\ \E p \in DOMAIN visited_pages :
         \E l, m \in FoundLinks(p) :
           /\ l # m /\ ~Internal(l) /\ ~Internal(m)
           /\ {l, m} \subseteq Fetched("link")
    /\ Cardinality(DOMAIN visited_pages) >= 2

\* the places of the list whose record is of this kind and about this target
AboutTarget(list, kind, url) == {i \in OfKind(list, kind) : list[i].target = Some(url)}

\* a link to a LinkedIn host whose check came back with HTTP 999
LinkedIn999(url) ==
    /\ url \in DOMAIN checked_links
    /\ checked_links[url].status_code = Some(999)
    /\ endswith(hostname(parsed_url[url]), <<"linkedin", ".", "com">>)

\* C7: for a link to a LinkedIn host whose check returned HTTP 999, the run
\* records exactly one link_warning and no link_error for that link, however
\* many pages hold the link.
C7_LinkedIn999Downgraded ==
    \A url \in DOMAIN checked_links :
        LinkedIn999(url) =>
            /\ Cardinality(AboutTarget(warnings, "link_warning", url)) = 1
            /\ AboutTarget(issues, "link_error", url) = {}
            /\ AboutTarget(warnings, "link_error", url) = {}

\* a run in which two loaded pages hold the same LinkedIn link, and its check
\* returned 999
C7_Witness ==
    /\ Returned
    /\ \E url \in DOMAIN checked_links :
         /\ LinkedIn999(url)
         /\ \E p, q \in DOMAIN visited_pages :
              p # q /\ url \in FoundLinks(p) /\ url \in FoundLinks(q)

\* the places of `issues` that hold a page_error of this page
PageErrors(url) == {i \in OfKind(issues, "page_error") : issues[i].source = Some(url)}

\* this step fetched a page, and the fetch failed
PageFailedNow ==
    /\ visited_pages' # visited_pages
    /\ \E url \in DOMAIN visited_pages' \ DOMAIN visited_pages :
         ~visited_pages'[url].ok

\* C8: every page whose fetch failed has exactly one page_error, with that
\* page as source and the status code of the fetch; the page is counted in
\* checked_pages; the step that handles it only takes it off the queue and
\* leaves checked_links and checked_images alone; when the base page fails the
\* summary has one issue, checked_pages 1, checked_links 0, checked_images 0.
C8_PageFailure ==
    /\ [](\A url \in DOMAIN visited_pages :
            ~visited_pages[url].ok =>
                /\ Cardinality(PageErrors(url)) = 1
                /\ \A i \in PageErrors(url) :
                     issues[i].status_code = visited_pages[url].status_code)
    /\ [](Returned =>
            /\ Result.checked_pages = Cardinality(Fetched("page"))
            /\ Fetched("page") = DOMAIN visited_pages
            /\ ~visited_pages[base_url].ok =>
                 /\ Len(Result.issues) = 1
                 /\ Result.issues[1].kind = "page_error"
                 /\ Result.checked_pages = 1
                 /\ Result.checked_links = 0
                 /\ Result.checked_images = 0)
    /\ [][PageFailedNow =>
            /\ to_visit' = Tail(to_visit)
            /\ pc' = "loop"
            /\ UNCHANGED <<checked_links, checked_images, link_iter, image_iter,
                           warnings>>
            /\ Len(issues') = Len(issues) + 1]_vars

\* a run in which one page failed with HTTP 500 and another one with a
\* transport failure, both found through links of the base page
C8_Witness ==
    /\ Returned
    /\ \E p, q \in DOMAIN visited_pages \ {base_url} :
         /\ visited_pages[p].status_code = Some(500)
         /\ ~visited_pages[q].ok /\ visited_pages[q].status_code = None
         /\ {p, q} \subseteq FoundLinks(base_url)

\* C9: every image URL that was checked has exactly one image_error when its
\* fetch failed, exactly one when the fetch succeeded with a Content-Type that
\* does not start with "image/", and none when it succeeded with an image
\* Content-Type; every checked image URL counts in checked_images.
C9_ImageContentCheck ==
    /\ \A url \in DOMAIN checked_images :
         Cardinality(AboutTarget(issues, "image_error", url))
           = IF /\ checked_images[url].ok
                /\ startswith(checked_images[url].detail, <<"image/">>)
             THEN 0 ELSE 1
    /\ DOMAIN checked_images = Fetched("image")
    /\ Returned => Result.checked_images = Cardinality(Fetched("image"))

\* a run in which two loaded pages hold the same image, which came back with
\* HTTP 200 and Content-Type text/html
C9_Witness ==
    /\ Returned
    /\ \E url \in DOMAIN checked_images :
         /\ checked_images[url].ok
         /\ checked_images[url].detail = TextHtml
         /\ \E p, q \in DOMAIN visited_pages :
              p # q /\ url \in FoundImages(p) /\ url \in FoundImages(q)

\* Scenario A: the base page loaded with exactly two anchors, the internal
\* /about and the external https://external.test/; every other page came back
\* 200 without links or images, and every link check came back 200.
ScenarioA ==
    /\ Returned
    /\ visited_pages[base_url].ok
    /\ visited_pages[base_url].detail
         = {Tag("a", "href", About), Tag("a", "href", External)}
    /\ \A p \in DOMAIN visited_pages \ {base_url} :
         visited_pages[p].ok /\ visited_pages[p].detail = {}
    /\ \A l \in DOMAIN checked_links : checked_links[l].status_code = Some(200)

\* C10 as stated: in Scenario A crawl() returns checked_pages = 2,
\* checked_links = 1, checked_images = 0 and no issues.
C10_ScenarioA_OneLink ==
    ScenarioA =>
        /\ Result.checked_pages = 2
        /\ Result.checked_links = 1
        /\ Result.checked_images = 0
        /\ Result.issues = << >>

\* C10: in Scenario A crawl() returns checked_pages = 2, checked_links = 2
\* (the internal link is link-checked and visited as a page, the external one
\* is link-checked), checked_images = 0 and no issues.
C10_ScenarioA ==
    ScenarioA =>
        /\ Result.checked_pages = 2
        /\ Result.checked_links = 2
        /\ DOMAIN checked_links = extract_links(base_url, visited_pages[base_url].detail)
        /\ Result.checked_images = 0
        /\ Result.issues = << >>

\* Scenario A was run to its end
C10_Witness ==
    /\ ScenarioA
    /\ Cardinality(DOMAIN visited_pages) = 2
    /\ \E l \in DOMAIN checked_links : ~Internal(l)
    /\ \E l \in DOMAIN checked_links : Internal(l) /\ l \in DOMAIN visited_pages

\* status codes on both sides of the limits 200 and 400
StatusCodes == {100, 199, 200, 204, 301, 399, 400, 404, 500, 999}

\* what a GET may bring back: the answers of the site and answers with the
\* status codes above
AnyResponses ==
    {Response(status, {}, TextHtml) : status \in StatusCodes}
    \cup {Raised(<<"ConnectionError">>), Raised(<<"Timeout">>)}
    \cup {Response(200, doc, TextHtml) : doc \in Documents}
    \cup {Response(200, {}, ImagePng)}
    \cup FailedPages \cup FailedLinks \cup FailedImages

\* ok is true exactly when a status code is there and lies in [200, 400)
OkIffStatusInRange(result) ==
    result.ok <=> /\ result.status_code # None
                  /\ 200 <= result.status_code[1]
                  /\ result.status_code[1] < 400

\* _fetch on every URL of the site and every answer
FetchContract ==
    \A url \in Urls, response \in AnyResponses, store_body \in BOOLEAN :
           LET result == _fetch(url, store_body, response)
           IN  /\ OkIffStatusInRange(result)
               /\ response.raises =>
                    ~result.ok /\ result.status_code = None
               /\ (~response.raises
                   /\ (response.status_code < 200 \/ response.status_code >= 400)) =>
                    /\ ~result.ok
                    /\ result.status_code = Some(response.status_code)
                    /\ result.detail = <<"HTTP ", ToString(response.status_code)>>

\* C11: for every UrlCheckResult of _fetch, ok holds iff status_code is
\* present and in [200, 400); a transport failure gives ok = FALSE and no
\* status code; a status outside [200, 400) gives ok = FALSE and the detail
\* "HTTP {status}".
C11_FetchResult ==
    /\ FetchContract
    /\ \A u \in DOMAIN visited_pages : OkIffStatusInRange(visited_pages[u])
    /\ \A u \in DOMAIN checked_links : OkIffStatusInRange(checked_links[u])
    /\ \A u \in DOMAIN checked_images : OkIffStatusInRange(checked_images[u])

\* a run that holds the result of a transport failure, the result of an HTTP
\* failure status and results of successes with and without the body
C11_Witness ==
    /\ \E u \in DOMAIN visited_pages :
         ~visited_pages[u].ok /\ visited_pages[u].status_code = None
    /\ \E u \in DOMAIN checked_links :
         ~checked_links[u].ok /\ checked_links[u].detail = <<"HTTP ", "404">>
    /\ \E u \in DOMAIN visited_pages :
         visited_pages[u].ok /\ visited_pages[u].status_code = Some(200)
    /\ \E u \in DOMAIN checked_links :
         checked_links[u].ok /\ checked_links[u].detail = TextHtml

\* an exception left crawl(): the run was aborted without a summary
Aborted == pc = "raised"

\* C12: no failure aborts the run: whatever a fetch brings back and whatever
\* reference a page holds, malformed ones included, no exception leaves
\* crawl(), which goes on until the queue is empty and returns a summary.
C12_NoAbort == ~Aborted

\* C13: normalize_url(normalize_url(u)) = normalize_url(u) for every URL u:
\* the base URL that WebsiteChecker keeps, normalize_url(args.base_url), is
\* left as it is by normalize_url.
C13_Idempotent == [][WebsiteChecker_init => normalize_url(base_url') = base_url']_vars

\* u + "#" + f
with_fragment_added(u, f) == u \o <<"#">> \o f

\* the fragments tried: empty, one word, with "?", "/" and a second "#"
Fragments == {<< >>, <<"f">>, <<"f", "?", "Q">>, <<"/about">>, <<"f", "#", "team">>}

\* C14 as stated: normalize_url(u + "#" + f) = normalize_url(u) for every URL
\* u and every fragment f.
C14_FragmentIrrelevant_AnyUrl ==
    pc = "args" =>
        \A f \in Fragments :
            normalize_url(with_fragment_added(base_url, f)) = normalize_url(base_url)

\* C14: normalize_url(u + "#" + f) = normalize_url(u) for every URL u whose
\* scheme is http or https and every fragment f, and the normalized URL holds
\* no "#"; a URL of another scheme or without a scheme is returned as it is,
\* with its fragment.
C14_FragmentIrrelevant ==
    /\ pc = "args" =>
         \A f \in Fragments :
             IF is_http(urlparse(base_url))
             THEN normalize_url(with_fragment_added(base_url, f))
                    = normalize_url(base_url)
             ELSE normalize_url(with_fragment_added(base_url, f))
                    = with_fragment_added(base_url, f)
    /\ (pc = "constructed" /\ is_http(urlparse(base_url))) =>
         \A i \in DOMAIN base_url : base_url[i] # "#"

\* WebsiteChecker was built from an https URL with an upper-case host, a
\* query and a fragment: the fragment is gone, the query is kept
C14_Witness ==
    /\ pc = "constructed"
    /\ base_url = <<"https", ":", "//", "www", ".", "site", ".", "test", "/about",
                    "?", "Q", "=", "1">>

\* add "www." if absent, strip it if present
www_toggle(host) ==
    IF startswith(host, <<"www", ".">>)
    THEN SubSeq(host, 3, Len(host))
    ELSE <<"www", ".">> \o host

\* the extra hosts, trimmed and lower-cased, the empty ones left out
CleanedExtras(extras) == {lower(strip(extra)) : extra \in extras} \ {<< >>}

Crawling == pc \notin {"args", "constructed"}
BlogUrl == normalize_url(Blog)

\* during the crawl the queue holds only URLs whose lower-cased host is a
\* member of internal_domains; the unlisted subdomain blog.site.test is never
\* queued and never fetched as a page
QueueHoldsMembersOnly ==
    Crawling =>
        /\ \A i \in DOMAIN to_visit :
             lower(hostname(parsed_url[to_visit[i]])) \in internal_domains
        /\ BlogUrl \notin {to_visit[i] : i \in DOMAIN to_visit}
                          \cup DOMAIN visited_pages \cup Fetched("page")

\* C15 as it is stated: for every base host, build_internal_domains(base,
\* extras) is {lower(base), www-toggle of lower(base)} and the cleaned extras,
\* and the queue takes only exact members of that set.
C15_DomainClassification_AnyBase ==
    /\ [][WebsiteChecker_init =>
            internal_domains' =
                {lower(base_domain'), www_toggle(lower(base_domain'))}
                \cup CleanedExtras(internal_domains)]_vars
    /\ []QueueHoldsMembersOnly

\* C15: for a base host that is not empty, build_internal_domains(base,
\* extras) is {lower(base), www-toggle of lower(base)} and every trimmed,
\* lower-cased extra host, the empty string left out; for an empty base host it
\* is the cleaned extras alone. During the crawl a link target is appended to
\* the queue only if its lower-cased host is a member of that set, and the
\* subdomain blog.site.test, which is not listed, is never queued.
C15_DomainClassification ==
    /\ [][WebsiteChecker_init =>
            internal_domains' =
                ((IF base_domain' = << >>
                  THEN {}
                  ELSE {lower(base_domain'), www_toggle(lower(base_domain'))})
                 \cup CleanedExtras(internal_domains)) \ {<< >>}]_vars
    /\ []QueueHoldsMembersOnly

C15_Witness ==
    /\ Returned
    /\ BlogUrl \in DOMAIN checked_links
    /\ BlogUrl \notin DOMAIN visited_pages
    /\ normalize_url(WwwX) \in DOMAIN visited_pages

\* the (page, target) pairs over which the crawl goes on: the anchors found on
\* loaded pages whose target has an internal host
InternalAnchors == {a \in Anchors : Internal(a[2])}

\* the (url, distance) pairs of the URLs farther than d links from the base
\* URL, S being the URLs at most d links away and E the pairs to go over
RECURSIVE Farther(_, _, _)
Farther(S, E, d) ==
    Only({IF T = {}
          THEN {}
          ELSE {<<u, d + 1>> : u \in T} \cup Farther(S \cup T, E, d + 1) :
            T \in {{e[2] : e \in {a \in E : a[1] \in S}} \ S}})

\* every URL that a chain of internal links leads to, with its link distance
\* from the base URL
Distances ==
    Only({{<<base_url, 0>>} \cup Farther({base_url}, E, 0) : E \in {InternalAnchors}})

\* the page fetched last is at least as far from the base URL as every page
\* fetched before it, and every URL nearer to the base URL was fetched
LatestInOrder ==
    \A D \in {Distances} :
        \E latest \in D :
            /\ latest[1] = current
            /\ \A other \in D :
                 /\ other[1] \in DOMAIN visited_pages => other[2] <= latest[2]
                 /\ other[2] < latest[2] => other[1] \in DOMAIN visited_pages

\* C16: pages are fetched in non-decreasing order of their link distance from
\* the base URL, counted over internal links found on loaded pages: at every
\* page fetch no page fetched before is farther from the base URL and every
\* URL at a smaller distance was fetched already; the distance of a fetched
\* page never changes afterwards.
C16_BreadthFirst ==
    [][/\ {d \in Distances : d[1] \in DOMAIN visited_pages} \subseteq Distances'
       /\ visited_pages' # visited_pages => LatestInOrder']_vars

\* a run that fetched the base URL, two pages one link away and a page two
\* links away
C16_Witness ==
    /\ Returned
    /\ \E p, q, r \in DOMAIN visited_pages :
         /\ p # q
         /\ {<<base_url, 0>>, <<p, 1>>, <<q, 1>>, <<r, 2>>} \subseteq Distances

\* the URLs on the queue
Frontier == {to_visit[i] : i \in DOMAIN to_visit}

\* no URL stands twice on the queue
FrontierDistinct == Cardinality(Frontier) = Len(to_visit)

\* C17: in every state of the crawl each URL on the queue is in seen and no
\* URL stands on the queue twice.
C17_SeenCoversFrontier ==
    /\ Frontier \subseteq seen
    /\ FrontierDistinct

\* the host is linkedin.com or one of its subdomains
LinkedInHost(host) ==
    \/ lower(host) = <<"linkedin", ".", "com">>
    \/ endswith(lower(host), <<".", "linkedin", ".", "com">>)

\* a failed link check with status 999 on linkedin.com or a subdomain of it
LinkedInCase(url) ==
    /\ checked_links[url].status_code = Some(999)
    /\ LinkedInHost(hostname(parsed_url[url]))

\* C18: a link_warning is recorded only for a failed link check with status
\* 999 whose host is linkedin.com or a subdomain of it, every other failed
\* link check is recorded as a link_error, warnings holds link_warning records
\* only and issues holds none.
C18_LinkClassification ==
    /\ \A i \in DOMAIN warnings :
         /\ warnings[i].kind = "link_warning"
         /\ warnings[i].status_code = Some(999)
         /\ \E url \in DOMAIN checked_links :
              /\ warnings[i].target = Some(url)
              /\ ~checked_links[url].ok
              /\ LinkedInCase(url)
    /\ \A i \in DOMAIN issues : issues[i].kind # "link_warning"
    /\ \A url \in DOMAIN checked_links :
         (~checked_links[url].ok /\ ~LinkedInCase(url)) =>
             AboutTarget(issues, "link_error", url) # {}

\* the scheme of the URL is http or https
HttpScheme(url) == urlparse(url).scheme \in {<<"http">>, <<"https">>}

\* the targets of the records of the list
Targets(list) == {list[i].target[1] : i \in {j \in DOMAIN list : list[j].target # None}}

\* C19: no link or image target whose scheme is not http or https is fetched,
\* recorded in checked_links or checked_images, put on the queue, or named as
\* the target of an issue or a warning.
C19_SchemeFilter ==
    \A url \in Fetched("page") \cup Fetched("link") \cup Fetched("image")
               \cup DOMAIN checked_links \cup DOMAIN checked_images
               \cup Frontier \cup DOMAIN visited_pages
               \cup Targets(issues) \cup Targets(warnings) :
        HttpScheme(url)

\* a run that returned after it loaded a page with a mailto: anchor and a
\* data: image next to an http(s) link that was checked
C19_Witness ==
    /\ Returned
    /\ \E p \in DOMAIN visited_pages :
         /\ visited_pages[p].ok
         /\ normalize_url(Mailto) \in extract_links(p, visited_pages[p].detail)
         /\ normalize_url(DataSrc) \in extract_images(p, visited_pages[p].detail)
         /\ \E l \in extract_links(p, visited_pages[p].detail) : l \in DOMAIN checked_links

\* the link_error and link_warning records about this link, as (list, place)
LinkRecords(url) ==
    {<<"issues", i>> : i \in AboutTarget(issues, "link_error", url)
                              \cup AboutTarget(issues, "link_warning", url)}
    \cup {<<"warnings", i>> : i \in AboutTarget(warnings, "link_error", url)
                                    \cup AboutTarget(warnings, "link_warning", url)}

RecordAt(r) == IF r[1] = "issues" THEN issues[r[2]] ELSE warnings[r[2]]

\* a failed link has one record, about a loaded page that holds the link; a
\* link that answered well has none
OneRecordPerFailedLink ==
    \A url \in DOMAIN checked_links :
        IF checked_links[url].ok
        THEN LinkRecords(url) = {}
        ELSE /\ Cardinality(LinkRecords(url)) = 1
             /\ \A r \in LinkRecords(url) :
                  \E p \in DOMAIN visited_pages :
                      RecordAt(r).source = Some(p) /\ url \in FoundLinks(p)

IsPrefix(s, t) == Len(s) <= Len(t) /\ SubSeq(t, 1, Len(s)) = s

\* the step that checks a link checks it on the first page that holds it, and
\* the record of a failure names that page as its source; records are only
\* added, never changed or removed
RecordedOnFirstPage ==
    /\ \A url \in (DOMAIN checked_links') \ DOMAIN checked_links :
         /\ url \in FoundLinks(current)
         /\ \A p \in DOMAIN visited_pages \ {current} : url \notin FoundLinks(p)
         /\ ~checked_links'[url].ok =>
              \E r \in LinkRecords(url)' : RecordAt(r)'.source = Some(current)
    /\ IsPrefix(issues, issues')
    /\ IsPrefix(warnings, warnings')

\* C20: each link whose check failed has exactly one link_error or
\* link_warning record with that link as target, made when the first visited
\* page that holds the link is processed and naming that page as source; a
\* link whose check succeeded has none, and pages visited later add no record.
C20_ExactlyOnce ==
    /\ []OneRecordPerFailedLink
    /\ [][RecordedOnFirstPage]_vars

\* a run that returned after two loaded pages held the same broken link, with
\* a link that answered well next to it
C20_Witness ==
    /\ Returned
    /\ \E url \in DOMAIN checked_links :
         /\ ~checked_links[url].ok
         /\ \E p, q \in DOMAIN visited_pages :
              p # q /\ url \in FoundLinks(p) /\ url \in FoundLinks(q)
    /\ \E url \in DOMAIN checked_links : checked_links[url].ok

\* C21: when crawl() has returned, every internal http(s) link found on a
\* loaded page was fetched exactly once as a link check and exactly once as a
\* page, whatever the link check answered; when both fetches failed the link
\* has one link_error and one page_error.
C21_InternalLinkTwice ==
    Returned =>
        \A a \in InternalAnchors :
            LET url == a[2]
            IN  /\ url \in DOMAIN checked_links
                /\ url \in DOMAIN visited_pages
                /\ CopiesIn(<<"link", url>>, requests) = 1
                /\ CopiesIn(<<"page", url>>, requests) = 1
                /\ (~checked_links[url].ok /\ ~visited_pages[url].ok) =>
                     /\ Cardinality(AboutTarget(issues, "link_error", url)) = 1
                     /\ Cardinality(PageErrors(url)) = 1

\* a run that returned after an internal link, not the base URL, failed as a
\* link check and failed again as a page
C21_Witness ==
    /\ Returned
    /\ \E a \in InternalAnchors :
         /\ a[2] # base_url
         /\ ~checked_links[a[2]].ok
         /\ ~visited_pages[a[2]].ok
         /\ Cardinality(AboutTarget(issues, "link_error", a[2])) = 1
         /\ Cardinality(PageErrors(a[2])) = 1

\* what the claim compares of a record, and the multiset of it over a list
Triple(record) == <<record.kind, record.target, record.status_code>>
Triples(list) ==
    [t \in {Triple(list[i]) : i \in DOMAIN list} |->
        Cardinality({i \in DOMAIN list : Triple(list[i]) = t})]

\* the multiset of the triples of a set of (origin, url, triple) entries
TriplesOf(entries) ==
    [t \in {e[3] : e \in entries} |-> Cardinality({e \in entries : e[3] = t})]

\* The site as the run met it: the answer to each page, link and image fetch.
\* What follows is computed from these answers alone, with no regard to the
\* order in which links and images were iterated.
SitePages == ReachFrom({base_url}, InternalAnchors)
SiteLinks == {a[2] : a \in Anchors}
SiteImages == UNION {FoundImages(p) : p \in DOMAIN visited_pages}

DowngradedLink(l) ==
    /\ checked_links[l].status_code = Some(999)
    /\ endswith(lower(hostname(parsed_url[l])), <<"linkedin", ".", "com">>)

SiteIssues ==
    {<<"page", p, <<"page_error", None, visited_pages[p].status_code>> >> :
        p \in {q \in DOMAIN visited_pages : ~visited_pages[q].ok}}
    \cup {<<"link", l, <<"link_error", Some(l), checked_links[l].status_code>> >> :
            l \in {k \in DOMAIN checked_links :
                     ~checked_links[k].ok /\ ~DowngradedLink(k)}}
    \cup {<<"image", i, <<"image_error", Some(i), checked_images[i].status_code>> >> :
            i \in {k \in DOMAIN checked_images : ~checked_images[k].ok}}
    \cup {<<"image", i, <<"image_error", Some(i), None>> >> :
            i \in {k \in DOMAIN checked_images :
                     /\ checked_images[k].ok
                     /\ ~startswith(checked_images[k].detail, <<"image/">>)}}

SiteWarnings ==
    {<<"link", l, <<"link_warning", Some(l), checked_links[l].status_code>> >> :
        l \in {k \in DOMAIN checked_links :
                 ~checked_links[k].ok /\ DowngradedLink(k)}}

\* C22: the result of a run is a function of the site and of the answers to
\* the fetches, in which the order of iteration over the links and images of
\* a page has no part: when crawl() has returned, the visited pages are the
\* internal URLs that links lead to from the base URL, the checked links and
\* images are the http(s) links and images of the loaded pages, the counts of
\* the summary are the sizes of these sets, and the multisets of (kind,
\* target, status_code) over issues and over warnings are those of the failed
\* fetches. Two runs on the same site with the same answers thus end alike.
C22_OrderIndependent ==
    Returned =>
        /\ DOMAIN visited_pages = SitePages
        /\ DOMAIN checked_links = SiteLinks
        /\ DOMAIN checked_images = SiteImages
        /\ Result.checked_pages = Cardinality(SitePages)
        /\ Result.checked_links = Cardinality(SiteLinks)
        /\ Result.checked_images = Cardinality(SiteImages)
        /\ Triples(issues) = TriplesOf(SiteIssues)
        /\ Triples(warnings) = TriplesOf(SiteWarnings)
        /\ Triples(Result.issues) = TriplesOf(SiteIssues)
        /\ Triples(Result.warnings) =
               IF \E e \in SiteIssues : e[3][1] = "link_error"
               THEN TriplesOf(SiteWarnings)
               ELSE TriplesOf({})

\* a run that returned after a page with two links and an image, on which the
\* order of iteration is open, and with two failures recorded
C22_Witness ==
    /\ Returned
    /\ \E p \in DOMAIN visited_pages :
         /\ Cardinality(FoundLinks(p)) >= 2
         /\ FoundImages(p) # {}
    /\ Len(issues) + Len(warnings) >= 2

\* the issues of one page stand together, and among them no image_error
\* stands before a link_error
IssuesGroupedByPage ==
    /\ \A i, j, k \in DOMAIN issues :
         (i < j /\ j < k /\ issues[i].source = issues[k].source) =>
             issues[j].source = issues[i].source
    /\ \A i, j \in DOMAIN issues :
         (i < j /\ issues[i].source = issues[j].source) =>
             ~(issues[i].kind = "image_error" /\ issues[j].kind = "link_error")

\* a step leaves the records there are where they are and adds at most one
\* issue and one warning at the end, about the page fetched last: the page
\* this step fetched, or the page whose links and images are being processed
AppendedForCurrentPage ==
    /\ IsPrefix(issues, issues')
    /\ IsPrefix(warnings, warnings')
    /\ Len(issues') <= Len(issues) + 1
    /\ Len(warnings') <= Len(warnings) + 1
    /\ \A list \in {SubSeq(issues', Len(issues) + 1, Len(issues'))
                    \o SubSeq(warnings', Len(warnings) + 1, Len(warnings'))} :
         \A i \in DOMAIN list :
            /\ list[i].source = Some(current')
            /\ current' \in DOMAIN visited_pages'
            /\ \/ current' \notin DOMAIN visited_pages
               \/ (current' = current /\ pc \in {"links", "images"})

\* C23: issues and warnings only grow at the end; each new record has the page
\* fetched last as its source, so the issues of a page fetched earlier stand
\* before those of a page fetched later; among the issues of one page every
\* link_error stands before every image_error.
C23_IssueOrder ==
    /\ []IssuesGroupedByPage
    /\ [][AppendedForCurrentPage]_vars

\* a run that returned with a link_error and an image_error of one page and
\* an issue of another page
C23_Witness ==
    /\ Returned
    /\ \E i, j, k \in DOMAIN issues :
         /\ issues[i].source = issues[j].source
         /\ issues[i].kind = "link_error"
         /\ issues[j].kind = "image_error"
         /\ issues[k].source # issues[i].source

====
